---- MODULE Spec2Model ----
(***************************************************************************)
(* Model of the training driver of DiffusionReconstruct (src/train.py):    *)
(* the resume logic, the epoch / micro-step loop with gradient             *)
(* accumulation, checkpoint rotation, the end-of-epoch evaluation and      *)
(* pipeline-save brackets around the EMA weights, run by one main process  *)
(* and, optionally, one non-main worker of the same data-parallel job.     *)
(***************************************************************************)
EXTENDS Integers, Sequences, FiniteSets, TLC

VARIABLES
    cfg,       \* the configuration and command line of the run (read-only)
    st,        \* per process: the local variables of main() and its objects
    outdir,    \* general_config.output_dir: entry name -> content
    saved,     \* steps of the checkpoints saved by this run, in order
    printed,   \* notices written by accelerator.print
    writes,    \* who wrote what into the output directory
    ts         \* the tensors of the micro-step being computed

vars == <<cfg, st, outdir, saved, printed, writes, ts>>

-----------------------------------------------------------------------------
(* Bounds of the explored configurations *)

MaxLen == 3        \* batches of the raw training dataloader: 1..MaxLen
MaxAccum == 2      \* gradient_accumulation_steps: 1..MaxAccum
MaxSteps == 4      \* configured num_training_steps: 1..MaxSteps
MaxEpochs == 2     \* configured num_epochs: 1..MaxEpochs
MaxLimit == 2      \* checkpoints_total_limit: None or 1..MaxLimit
MaxOld == 2        \* steps of the checkpoints left by earlier runs: 1..MaxOld

AllProcs == {"main", "worker"}

-----------------------------------------------------------------------------
(* Arithmetic of main() *)

\* math.ceil(a / b) for a >= 0, b > 0
CeilDiv(a, b) == (a + b - 1) \div b

\* len(train_dataloader) after accelerator.prepare: the batches are sharded
\* over the processes
PreparedLen == CeilDiv(cfg.len_raw, cfg.num_processes)

NumUpdateStepsPerEpoch == CeilDiv(PreparedLen, cfg.gradient_accumulation_steps)

\* line 239: the steps per epoch computed before accelerator.prepare
RawUpdateStepsPerEpoch == CeilDiv(cfg.len_raw, cfg.gradient_accumulation_steps)

\* lines 238-243: num_training_steps is inferred when it is not configured
OverrodeMaxTrainSteps == ~cfg.has_num_training_steps

\* the inference of line 241 alone, never recomputed for the prepared loader
NumTrainingStepsNotRecomputed ==
    IF cfg.has_num_training_steps
    THEN cfg.num_training_steps
    ELSE RawUpdateStepsPerEpoch * cfg.num_epochs

\* lines 240-241 and 263-264
NumTrainingSteps ==
    IF cfg.has_num_training_steps
    THEN cfg.num_training_steps
    ELSE cfg.num_epochs * NumUpdateStepsPerEpoch

NumEpochs == CeilDiv(NumTrainingSteps, NumUpdateStepsPerEpoch)

-----------------------------------------------------------------------------
(* Names of the entries of the output directory.  A name is the sequence   *)
(* of its "-"-separated parts; the step suffix is its decimal digits.      *)

RECURSIVE Digits(_)
\* str(n) of f"checkpoint-{global_step}"
Digits(n) == IF n < 10 THEN <<n>> ELSE Append(Digits(n \div 10), n % 10)

RECURSIVE ParseInt(_)
\* int(s) for a string of decimal digits
ParseInt(d) ==
    IF Len(d) = 1 THEN d[1]
    ELSE 10 * ParseInt(SubSeq(d, 1, Len(d) - 1)) + d[Len(d)]

CheckpointName(n) == <<"checkpoint", Digits(n)>>

\* int(x.split("-")[1])
StepOf(name) == ParseInt(name[2])

\* d.startswith("checkpoint")
StartsWithCheckpoint(name) == name[1] = "checkpoint"

RECURSIVE LexLess(_, _)
\* string order of two digit strings, the order sorted() has without a key
LexLess(a, b) ==
    IF Len(a) = 0 THEN Len(b) > 0
    ELSE IF Len(b) = 0 THEN FALSE
    ELSE IF a[1] # b[1] THEN a[1] < b[1]
    ELSE LexLess(Tail(a), Tail(b))

KeyLessLex(a, b) == LexLess(a[2], b[2])

\* the order of sorted(..., key=lambda x: int(x.split("-")[1]))
KeyLess(a, b) == StepOf(a) < StepOf(b)

RECURSIVE SortedByKey(_)
SortedByKey(S) ==
    IF S = {} THEN <<>>
    ELSE LET m == CHOOSE x \in S : \A y \in S \ {x} : ~KeyLess(y, x)
         IN  <<m>> \o SortedByKey(S \ {m})

\* os.listdir filtered and sorted, as done before a resume and before a save
ListCheckpoints(dir) ==
    SortedByKey({d \in DOMAIN dir : StartsWithCheckpoint(d)})

Range(s) == {s[i] : i \in DOMAIN s}

-----------------------------------------------------------------------------
(* The EMA model, the optimizer and the pipeline, as the driver uses them.  *)
(* s is the record of one process.                                          *)

NumInferenceSteps == 20

\* ema_model.store(unet.parameters())
EmaStore(s) ==
    [s EXCEPT !.temp_stored = <<s.unet>>,
              !.ema_calls = [@ EXCEPT !.store = @ + 1]]

\* ema_model.copy_to(unet.parameters())
EmaCopyTo(s) == [s EXCEPT !.unet = s.ema_shadow]

\* a restore that leaves the network as it is
EmaRestoreSkipped(s) ==
    [s EXCEPT !.temp_stored = <<>>,
              !.ema_calls = [@ EXCEPT !.restore = @ + 1]]

\* ema_model.restore(unet.parameters())
EmaRestore(s) ==
    [s EXCEPT !.unet = s.temp_stored[1],
              !.temp_stored = <<>>,
              !.ema_calls = [@ EXCEPT !.restore = @ + 1]]

\* ema_model.step(unet.parameters())
EmaStep(s) ==
    [s EXCEPT !.ema_shadow = [kind |-> "ema", ver |-> @.ver + 1],
              !.ema_steps = @ + 1]

\* optimizer.step(); lr_scheduler.step(); optimizer.zero_grad() through the
\* accelerate wrappers: they act only when gradients are synchronized
OptimizerStep(s) ==
    IF s.sync_gradients
    THEN [s EXCEPT !.unet = [@ EXCEPT !.ver = @ + 1],
                   !.optimizer_steps = @ + 1,
                   !.lr_steps = @ + 1]
    ELSE s

\* accelerator.accumulate(unet): Accelerator._do_sync, with the dataloader's
\* end_of_dataloader flag
DoSync(s) ==
    IF s.step = PreparedLen - 1
    THEN [s EXCEPT !.acc_step = 0, !.sync_gradients = TRUE]
    ELSE [s EXCEPT !.acc_step = @ + 1,
                   !.sync_gradients =
                       ((s.acc_step + 1) % cfg.gradient_accumulation_steps = 0)]

\* the sampling pipeline called by evaluate(): it configures the scheduler it
\* was given for num_inference_steps reverse steps and only reads the network
PipelineCall(sched) == [sched EXCEPT !.num_inference_steps = NumInferenceSteps]

\* unet = unwrap_model(unet)
Unwrap(s) == [s EXCEPT !.wrapped = FALSE]

-----------------------------------------------------------------------------
(* Conditions of main() *)

IsMainProcess(p) == p = "main"

Active(p) == st[p].pc # "absent"

\* a cadence test that forgets the final epoch
SampleEpochNoFinal(e) == (e + 1) % cfg.save_image_epochs = 0

\* (epoch + 1) % save_image_epochs == 0 or epoch == num_epochs - 1
SampleEpoch(e) ==
    \/ (e + 1) % cfg.save_image_epochs = 0
    \/ e = NumEpochs - 1

\* a cadence test on the step count before its increment
CheckpointDueOffByOne(g) == (g - 1) % cfg.checkpointing_steps = 0

\* global_step % checkpointing_steps == 0
CheckpointDue(g) == g % cfg.checkpointing_steps = 0

\* a budget test that lets one more step through
BudgetReachedLate(g) == g > NumTrainingSteps

\* global_step >= num_training_steps
BudgetReached(g) == g >= NumTrainingSteps

\* an eviction that makes room for no new checkpoint
RemovingCheckpointsOffByOne(dir) ==
    LET checkpoints == ListCheckpoints(dir)
        limit == cfg.checkpoints_total_limit
    IN  IF limit # <<>> /\ Len(checkpoints) >= limit[1]
        THEN LET num_to_remove == Len(checkpoints) - limit[1]
             IN  {checkpoints[i] : i \in 1..num_to_remove}
        ELSE {}

\* the checkpoints removed before a save, oldest first
RemovingCheckpoints(dir) ==
    LET checkpoints == ListCheckpoints(dir)
        limit == cfg.checkpoints_total_limit
    IN  IF limit # <<>> /\ Len(checkpoints) >= limit[1]
        THEN LET num_to_remove == Len(checkpoints) - limit[1] + 1
             IN  {checkpoints[i] : i \in 1..num_to_remove}
        ELSE {}

\* what accelerator.save_state writes for process state s
CheckpointContent(s) ==
    [unet |-> s.unet,
     unet_ema |-> IF cfg.use_ema THEN <<s.ema_shadow>> ELSE <<>>,
     optimizer |-> s.optimizer_steps,
     lr_scheduler |-> s.lr_steps]

\* a checkpoint written at step n by an earlier run
OldCheckpoint(n) ==
    [unet |-> [kind |-> "live", ver |-> n],
     unet_ema |-> IF cfg.use_ema THEN <<[kind |-> "ema", ver |-> n]>> ELSE <<>>,
     optimizer |-> n,
     lr_scheduler |-> n]

\* accelerator.load_state with load_model_hook
LoadState(s, c) ==
    [s EXCEPT !.unet = c.unet,
              !.ema_shadow = IF cfg.use_ema /\ c.unet_ema # <<>>
                             THEN c.unet_ema[1] ELSE @,
              !.optimizer_steps = c.optimizer,
              !.lr_steps = c.lr_scheduler]

-----------------------------------------------------------------------------
(* Initial states: main() at line 304, after the objects were built and     *)
(* prepared.                                                                *)

InitProc(active) ==
    [pc |-> IF active THEN "start" ELSE "absent",
     resume_from_checkpoint |-> cfg.resume_from_checkpoint,
     global_step |-> 0,
     initial_global_step |-> 0,
     first_epoch |-> 0,
     epoch |-> 0,
     step |-> 0,
     acc_step |-> 0,
     sync_gradients |-> FALSE,
     wrapped |-> TRUE,
     unet |-> [kind |-> "live", ver |-> 0],
     ema_shadow |-> [kind |-> "ema", ver |-> 0],
     temp_stored |-> <<>>,
     ema_calls |-> [store |-> 0, restore |-> 0],
     optimizer_steps |-> 0,
     lr_steps |-> 0,
     ema_steps |-> 0,
     noise_scheduler |-> [num_inference_steps |-> 0],
     eval_scheduler |-> <<>>,
     reduce_round |-> 0,
     barrier_round |-> 0,
     micro_steps |-> 0,
     sync_steps |-> 0,
     checkpoints |-> <<>>,
     evaluated |-> {},
     ended |-> {},
     eval_snapshot |-> <<>>]

\* an output directory left by earlier runs: a logging directory and the
\* checkpoints of the steps in S
OldOutdir(S) ==
    [name \in {<<"logs">>} \cup {CheckpointName(n) : n \in S} |->
        IF name = <<"logs">> THEN [files |-> "events"]
        ELSE OldCheckpoint(StepOf(name))]

InitWith(C, StepSets) ==
    /\ cfg \in C
    /\ \E S \in StepSets : outdir = OldOutdir(S)
    /\ st = [p \in AllProcs |->
                InitProc(IsMainProcess(p) \/ cfg.num_processes = 2)]
    /\ saved = <<>>
    /\ printed = {}
    /\ writes = {}
    /\ ts = [pc |-> "idle"]

-----------------------------------------------------------------------------
(* The steps of main(), for process p *)

Goto(s, l) == [s EXCEPT !.pc = l]

\* a resolution of "latest" that has no fallback: it names a checkpoint even
\* when none is listed
ResolvePathNoFallback(req, dirs) ==
    IF req # <<"latest">> THEN <<req>>
    ELSE IF Len(dirs) > 0 THEN <<dirs[Len(dirs)]>> ELSE <<CheckpointName(0)>>

\* lines 309-316: the checkpoint to resume from, <<>> for None
ResolvePath(req, dirs) ==
    IF req # <<"latest">> THEN <<req>>
    ELSE IF Len(dirs) > 0 THEN <<dirs[Len(dirs)]>> ELSE <<>>

\* a step block that runs after every micro-step
SyncBranchAlways(s) == TRUE

\* line 412: if accelerator.sync_gradients
SyncBranch(s) == s.sync_gradients

\* the training state an evaluation must leave alone
TrainingState(s) ==
    [unet |-> s.unet,
     global_step |-> s.global_step,
     optimizer |-> s.optimizer_steps,
     lr_scheduler |-> s.lr_steps,
     noise_scheduler |-> s.noise_scheduler,
     ema_shadow |-> s.ema_shadow,
     ema_steps |-> s.ema_steps]

\* lines 304-333: potentially load the weights and states of a previous save
Resume(p) ==
    LET s == st[p]
        req == s.resume_from_checkpoint
        dirs == ListCheckpoints(outdir)
        path == ResolvePath(req, dirs)
    IN  /\ s.pc = "start"
        /\ IF req = <<>>
           THEN /\ st' = [st EXCEPT ![p] =
                            [Goto(s, "epoch_head") EXCEPT !.initial_global_step = 0]]
                /\ UNCHANGED printed
           ELSE IF path = <<>>
           THEN /\ st' = [st EXCEPT ![p] =
                            [Goto(s, "epoch_head") EXCEPT
                                !.resume_from_checkpoint = <<>>,
                                !.initial_global_step = 0]]
                /\ printed' = IF IsMainProcess(p)
                              THEN printed \cup {"does not exist, starting a new training run"}
                              ELSE printed
           ELSE IF path[1] \notin DOMAIN outdir
           THEN \* accelerator.load_state raises
                /\ st' = [st EXCEPT ![p] = Goto(s, "crashed")]
                /\ printed' = IF IsMainProcess(p)
                              THEN printed \cup {"resuming from checkpoint"}
                              ELSE printed
           ELSE LET g == StepOf(path[1])
                IN  /\ st' = [st EXCEPT ![p] =
                                [Goto(LoadState(s, outdir[path[1]]), "epoch_head") EXCEPT
                                    !.global_step = g,
                                    !.initial_global_step = g,
                                    !.first_epoch = g \div NumUpdateStepsPerEpoch,
                                    !.epoch = g \div NumUpdateStepsPerEpoch]]
                    /\ printed' = IF IsMainProcess(p)
                                  THEN printed \cup {"resuming from checkpoint"}
                                  ELSE printed
        /\ UNCHANGED <<ts, cfg, outdir, saved, writes>>

\* line 344-347: the head of the epoch loop; the dataloader is not empty
EpochHead(p) ==
    LET s == st[p]
    IN  /\ s.pc = "epoch_head"
        /\ st' = [st EXCEPT ![p] =
                    IF s.epoch < NumEpochs
                    THEN [Goto(s, "forward") EXCEPT !.step = 0]
                    ELSE Goto(s, "end_training")]
        /\ UNCHANGED <<ts, cfg, outdir, saved, printed, writes>>

\* lines 348-403: enter accelerator.accumulate, sample, run the network and
\* compute the loss of one micro-step
Forward(p) ==
    LET s == st[p]
        t == DoSync(s)
    IN  /\ s.pc = "forward"
        /\ st' = [st EXCEPT ![p] =
                    [Goto(t, "backward") EXCEPT
                        !.micro_steps = @ + 1,
                        !.reduce_round = IF t.sync_gradients /\ t.wrapped
                                         THEN @ + 1 ELSE @]]
        /\ UNCHANGED <<ts, cfg, outdir, saved, printed, writes>>

\* lines 404-409: backward (the gradient all-reduce of a synchronized step
\* waits for every process), clipping, optimizer and scheduler step
Backward(p) ==
    LET s == st[p]
    IN  /\ s.pc = "backward"
        /\ (s.sync_gradients /\ s.wrapped) =>
              \A q \in AllProcs : Active(q) => st[q].reduce_round >= s.reduce_round
        /\ st' = [st EXCEPT ![p] = Goto(OptimizerStep(s), "post")]
        /\ UNCHANGED <<ts, cfg, outdir, saved, printed, writes>>

\* lines 412-428: after a synchronized step, the EMA update and the step count
PostStep(p) ==
    LET s == st[p]
        t == IF cfg.use_ema THEN EmaStep(s) ELSE s
        g == s.global_step + 1
    IN  /\ s.pc = "post"
        /\ st' = [st EXCEPT ![p] =
                    IF SyncBranch(s)
                    THEN [Goto(t, IF IsMainProcess(p) /\ CheckpointDue(g)
                                  THEN "ckpt" ELSE "brk") EXCEPT
                            !.global_step = g,
                            !.sync_steps = @ + 1]
                    ELSE Goto(s, "brk")]
        /\ UNCHANGED <<ts, cfg, outdir, saved, printed, writes>>

\* lines 440-457: remove the oldest checkpoints before saving a new one
Evict(p) ==
    LET s == st[p]
        removing == RemovingCheckpoints(outdir)
    IN  /\ s.pc = "ckpt"
        /\ outdir' = [name \in DOMAIN outdir \ removing |-> outdir[name]]
        /\ writes' = IF removing = {} THEN writes ELSE writes \cup {<<p, "rmtree">>}
        /\ st' = [st EXCEPT ![p] =
                    [Goto(s, "save") EXCEPT
                        !.checkpoints = IF cfg.checkpoints_total_limit # <<>>
                                        THEN ListCheckpoints(outdir) ELSE @]]
        /\ UNCHANGED <<ts, cfg, saved, printed>>

\* lines 459-461: accelerator.save_state(checkpoint-<global_step>)
SaveState(p) ==
    LET s == st[p]
        save_path == CheckpointName(s.global_step)
    IN  /\ s.pc = "save"
        /\ outdir' = [name \in DOMAIN outdir \cup {save_path} |->
                        IF name = save_path THEN CheckpointContent(s)
                        ELSE outdir[name]]
        /\ saved' = Append(saved, s.global_step)
        /\ writes' = writes \cup {<<p, "save_state">>}
        /\ st' = [st EXCEPT ![p] = Goto(s, "brk")]
        /\ UNCHANGED <<ts, cfg, printed>>

\* lines 463-469 and the head of the batch loop (line 347)
BreakCheck(p) ==
    LET s == st[p]
    IN  /\ s.pc = "brk"
        /\ st' = [st EXCEPT ![p] =
                    IF BudgetReached(s.global_step) THEN Goto(s, "epoch_end")
                    ELSE IF s.step + 1 < PreparedLen
                    THEN [Goto(s, "forward") EXCEPT !.step = @ + 1]
                    ELSE Goto(s, "epoch_end")]
        /\ UNCHANGED <<ts, cfg, outdir, saved, printed, writes>>

\* arriving at accelerator.wait_for_everyone() (line 488)
Arrive(s) == [Goto(s, "barrier") EXCEPT !.barrier_round = @ + 1]

\* lines 472-474: after the batches of an epoch
EpochEnd(p) ==
    LET s == st[p]
        t == [s EXCEPT !.ended = @ \cup {s.epoch},
                       !.eval_snapshot =
                           IF IsMainProcess(p) /\ SampleEpoch(s.epoch)
                           THEN <<[epoch |-> s.epoch, state |-> TrainingState(s)]>>
                           ELSE @]
    IN  /\ s.pc = "epoch_end"
        /\ st' = [st EXCEPT ![p] =
                    IF IsMainProcess(p) /\ SampleEpoch(s.epoch)
                    THEN Goto(t, "eval_store")
                    ELSE Arrive(t)]
        /\ UNCHANGED <<ts, cfg, outdir, saved, printed, writes>>

\* lines 475-479: unwrap the network and swap the EMA weights in
EvalStore(p) ==
    LET s == st[p]
        u == Unwrap(s)
    IN  /\ s.pc = "eval_store"
        /\ st' = [st EXCEPT ![p] =
                    Goto(IF cfg.use_ema THEN EmaCopyTo(EmaStore(u)) ELSE u, "eval")]
        /\ UNCHANGED <<ts, cfg, outdir, saved, printed, writes>>

\* lines 480-483 and evaluate() (lines 35-86): the pipeline gets a deep copy
\* of the noise scheduler; the call returns
Evaluate(p) ==
    LET s == st[p]
    IN  /\ s.pc = "eval"
        /\ st' = [st EXCEPT ![p] =
                    [Goto(s, "eval_restore") EXCEPT
                        !.eval_scheduler = <<PipelineCall(s.noise_scheduler)>>,
                        !.evaluated = @ \cup {s.epoch}]]
        /\ UNCHANGED <<ts, cfg, outdir, saved, printed, writes>>

\* evaluate() raises (an interruption or an error while sampling): nothing
\* in main() catches it
EvaluateRaises(p) ==
    LET s == st[p]
    IN  /\ s.pc = "eval"
        /\ st' = [st EXCEPT ![p] =
                    [Goto(s, "crashed") EXCEPT
                        !.eval_scheduler = <<PipelineCall(s.noise_scheduler)>>,
                        !.evaluated = @ \cup {s.epoch}]]
        /\ UNCHANGED <<ts, cfg, outdir, saved, printed, writes>>

\* lines 484-486: restore the network parameters
EvalRestore(p) ==
    LET s == st[p]
    IN  /\ s.pc = "eval_restore"
        /\ st' = [st EXCEPT ![p] =
                    Arrive(IF cfg.use_ema THEN EmaRestore(s) ELSE s)]
        /\ UNCHANGED <<ts, cfg, outdir, saved, printed, writes>>

\* lines 488-490: the barrier, then the decision to save the pipeline
WaitForEveryone(p) ==
    LET s == st[p]
    IN  /\ s.pc = "barrier"
        /\ \A q \in AllProcs : Active(q) => st[q].barrier_round >= s.barrier_round
        /\ st' = [st EXCEPT ![p] =
                    IF SampleEpoch(s.epoch)
                    THEN Goto(s, "pipe_store")
                    ELSE [Goto(s, "epoch_head") EXCEPT !.epoch = @ + 1]]
        /\ UNCHANGED <<ts, cfg, outdir, saved, printed, writes>>

\* lines 492-496
PipeStore(p) ==
    LET s == st[p]
        u == Unwrap(s)
    IN  /\ s.pc = "pipe_store"
        /\ st' = [st EXCEPT ![p] =
                    Goto(IF cfg.use_ema THEN EmaCopyTo(EmaStore(u)) ELSE u, "pipe_save")]
        /\ UNCHANGED <<ts, cfg, outdir, saved, printed, writes>>

\* lines 498-503: pipeline.save_pretrained(output_dir)
PipeSave(p) ==
    LET s == st[p]
        files == {<<"model_index.json">>, <<"unet">>, <<"scheduler">>}
    IN  /\ s.pc = "pipe_save"
        /\ outdir' = [name \in DOMAIN outdir \cup files |->
                        IF name \in files
                        THEN [unet |-> s.unet, scheduler |-> s.noise_scheduler]
                        ELSE outdir[name]]
        /\ writes' = writes \cup {<<p, "save_pretrained">>}
        /\ st' = [st EXCEPT ![p] = Goto(s, "pipe_restore")]
        /\ UNCHANGED <<ts, cfg, saved, printed>>

\* an end of the save bracket that leaves out the restore
PipeRestoreSkipped(p) ==
    LET s == st[p]
    IN  /\ s.pc = "pipe_restore"
        /\ st' = [st EXCEPT ![p] =
                    [Goto(s, "epoch_head") EXCEPT !.epoch = @ + 1]]
        /\ UNCHANGED <<ts, cfg, outdir, saved, printed, writes>>

\* lines 505-506, then the next epoch
PipeRestore(p) ==
    LET s == st[p]
        t == IF cfg.use_ema THEN EmaRestore(s) ELSE s
    IN  /\ s.pc = "pipe_restore"
        /\ st' = [st EXCEPT ![p] =
                    [Goto(t, "epoch_head") EXCEPT !.epoch = @ + 1]]
        /\ UNCHANGED <<ts, cfg, outdir, saved, printed, writes>>

\* line 508: accelerator.end_training()
EndTraining(p) ==
    LET s == st[p]
    IN  /\ s.pc = "end_training"
        /\ st' = [st EXCEPT ![p] = Goto(s, "done")]
        /\ UNCHANGED <<ts, cfg, outdir, saved, printed, writes>>

Next ==
    \E p \in AllProcs :
        \/ Resume(p)
        \/ EpochHead(p)
        \/ Forward(p)
        \/ Backward(p)
        \/ PostStep(p)
        \/ Evict(p)
        \/ SaveState(p)
        \/ BreakCheck(p)
        \/ EpochEnd(p)
        \/ EvalStore(p)
        \/ Evaluate(p)
        \/ EvaluateRaises(p)
        \/ EvalRestore(p)
        \/ WaitForEveryone(p)
        \/ PipeStore(p)
        \/ PipeSave(p)
        \/ PipeRestore(p)
        \/ EndTraining(p)

-----------------------------------------------------------------------------
(* Explored configurations *)

Limits == {<<>>} \cup {<<l>> : l \in 1..MaxLimit}

\* num_training_steps given, or absent and inferred from num_epochs
StepCfgs ==
    {<<TRUE, n, 1>> : n \in 1..MaxSteps} \cup {<<FALSE, 0, e>> : e \in 1..MaxEpochs}

Cfgs(Lens, NPs, Accs, Steps, Ks, Ms, Lims, Emas, Reqs) ==
    {[len_raw |-> l,
      num_processes |-> np,
      gradient_accumulation_steps |-> a,
      has_num_training_steps |-> sc[1],
      num_training_steps |-> sc[2],
      num_epochs |-> sc[3],
      checkpointing_steps |-> k,
      save_image_epochs |-> m,
      checkpoints_total_limit |-> lim,
      use_ema |-> e,
      resume_from_checkpoint |-> r,
      known_channels |-> <<0>>,
      same_mask |-> FALSE] :
        l \in Lens, np \in NPs, a \in Accs, sc \in Steps, k \in Ks, m \in Ms,
        lim \in Lims, e \in Emas, r \in Reqs}

Requests == {<<>>, <<"latest">>, CheckpointName(1)}

\* one process, every option
SoloCfgs ==
    Cfgs(1..MaxLen, {1}, 1..MaxAccum, StepCfgs, {1, 2}, {1, 2}, Limits,
         BOOLEAN, Requests)

\* a main process and a worker
PairCfgs ==
    Cfgs(1..MaxLen, {2}, 1..MaxAccum, StepCfgs, {1, 2}, {1, 2}, {<<>>, <<1>>},
         {TRUE}, {<<>>, <<"latest">>})

Init ==
    \/ InitWith(SoloCfgs, SUBSET (1..MaxOld))
    \/ InitWith(PairCfgs, {{1}})

Spec == Init /\ [][Next]_vars

\* resumed runs over directories whose step numbers have one and two digits
ResumeCfgs ==
    Cfgs({2}, {1}, {1}, {<<TRUE, 3, 1>>, <<TRUE, 12, 1>>}, {1, 2}, {2}, {<<>>, <<2>>},
         {TRUE}, {<<"latest">>, CheckpointName(9), CheckpointName(2)})

InitResume == InitWith(ResumeCfgs, SUBSET {2, 9, 10})

SpecResume == InitResume /\ [][Next]_vars

-----------------------------------------------------------------------------
(* The tensors of one micro-step (lines 349-380), element by element.  An  *)
(* element is <<sample, channel, pixel>>; integers stand for the reals.     *)

NumPix == 1        \* pixels of a field: 1..NumPix

Samples == {1, 2}
Channels == {0, 1}
Elems == Samples \X Channels \X (1..NumPix)

\* noise_scheduler.sigmas: the noise level of each timestep index
Sigmas == <<1, 3>>

NoiseValues == {-1, 1}

CleanBatches ==
    {[e \in Elems |-> 10 * e[1] + 2 * e[2] + e[3]],
     [e \in Elems |-> 0 - e[1] - 5 * e[2]]}

\* create_scatter_mask(clean_images, channels=known_channels, ratio): the
\* binary masks that are zero outside the known channels
ScatterMasks(known_channels) ==
    {m \in [Elems -> {0, 1}] :
        \A e \in Elems : e[2] \notin Range(known_channels) => m[e] = 0}

\* a masking that keeps the noise of the observed positions only
MaskedNoiseInverted(noise, mask) == [e \in Elems |-> noise[e] * mask[e]]

\* line 373: noise = noise * (1 - mask)
MaskedNoise(noise, mask) == [e \in Elems |-> noise[e] * (1 - mask[e])]

\* noise_scheduler.add_noise(clean_images, noise, timesteps): the sample's
\* noise level scales the noise added to it
AddNoise(clean, noise, timesteps) ==
    [e \in Elems |-> clean[e] + noise[e] * Sigmas[timesteps[e[1]]]]

\* a draw of n values from torch's default generator, the process-wide random
\* state seeded by set_seed (line 126): no generator argument is passed
DrawDefault(t, what, n) ==
    [t EXCEPT !.rng = [@ EXCEPT !.default = @ + n],
              !.drawn = Append(@, [draw |-> what, from |-> "default"])]

\* line 349: clean_images = batch
TakeBatch ==
    /\ ts.pc = "batch"
    /\ \E c \in CleanBatches :
          ts' = [ts EXCEPT !.pc = "noise", !.clean_images = c]
    /\ UNCHANGED <<cfg, st, outdir, saved, printed, writes>>

\* line 351: noise = torch.randn(clean_images.shape)
SampleNoise ==
    /\ ts.pc = "noise"
    /\ \E n \in [Elems -> NoiseValues] :
          ts' = [DrawDefault(ts, "noise", 1) EXCEPT
                    !.pc = "timesteps", !.noise = n, !.sampled_noise = n]
    /\ UNCHANGED <<cfg, st, outdir, saved, printed, writes>>

\* lines 356-368: one timestep (an index of the sigma schedule) per sample
SampleTimesteps ==
    /\ ts.pc = "timesteps"
    /\ \E t \in [Samples -> DOMAIN Sigmas] :
          ts' = [DrawDefault(ts, "timesteps", 1) EXCEPT
                    !.pc = "mask", !.timesteps = t]
    /\ UNCHANGED <<cfg, st, outdir, saved, printed, writes>>

\* line 372: ratio = torch.rand(1), then create_scatter_mask without a
\* generator argument
CreateScatterMask ==
    /\ ts.pc = "mask"
    /\ \E m \in ScatterMasks(cfg.known_channels) :
          ts' = [DrawDefault(DrawDefault(ts, "ratio", 1), "mask", 1) EXCEPT
                    !.pc = "mask_noise", !.mask = m]
    /\ UNCHANGED <<cfg, st, outdir, saved, printed, writes>>

\* line 373
MaskNoise ==
    /\ ts.pc = "mask_noise"
    /\ ts' = [ts EXCEPT !.pc = "add_noise",
                        !.noise = MaskedNoise(ts.noise, ts.mask)]
    /\ UNCHANGED <<cfg, st, outdir, saved, printed, writes>>

\* line 379
NoiseImages ==
    /\ ts.pc = "add_noise"
    /\ ts' = [ts EXCEPT !.pc = "noised",
                        !.noisy_images =
                            AddNoise(ts.clean_images, ts.noise, ts.timesteps)]
    /\ UNCHANGED <<cfg, st, outdir, saved, printed, writes>>

NextStep ==
    \/ TakeBatch
    \/ SampleNoise
    \/ SampleTimesteps
    \/ CreateScatterMask
    \/ MaskNoise
    \/ NoiseImages

KnownChannelChoices == {<<0>>, <<1>>, <<0, 1>>}

StepCfgsOf(kcs) ==
    {[c EXCEPT !.known_channels = kc, !.same_mask = sm] :
        c \in Cfgs({1}, {1}, {1}, {<<TRUE, 1, 1>>}, {1}, {1}, {<<>>}, {TRUE}, {<<>>}),
        kc \in kcs, sm \in BOOLEAN}

InitStep ==
    /\ cfg \in StepCfgsOf(KnownChannelChoices)
    /\ outdir = OldOutdir({})
    /\ st = [p \in AllProcs |-> InitProc(IsMainProcess(p))]
    /\ saved = <<>>
    /\ printed = {}
    /\ writes = {}
    /\ ts = [pc |-> "batch",
             rng |-> [default |-> 0, generator |-> 0],
             drawn |-> <<>>,
             clean_images |-> <<>>,
             noise |-> <<>>,
             sampled_noise |-> <<>>,
             timesteps |-> <<>>,
             mask |-> <<>>,
             noisy_images |-> <<>>]

SpecStep == InitStep /\ [][NextStep]_vars

-----------------------------------------------------------------------------
(* The rest of a micro-step (lines 374-404): mask channels, preconditioning, *)
(* network call and loss.  Reals that are not integers are fractions        *)
(* <<numerator, denominator>> in lowest terms.                              *)

RECURSIVE GCD(_, _)
GCD(a, b) == IF b = 0 THEN a ELSE GCD(b, a % b)

Abs(n) == IF n < 0 THEN 0 - n ELSE n

Frac(n, d) ==
    LET g == GCD(Abs(n), Abs(d))
    IN  IF d < 0 THEN <<(0 - n) \div g, (0 - d) \div g>> ELSE <<n \div g, d \div g>>

FAdd(a, b) == Frac(a[1] * b[2] + b[1] * a[2], a[2] * b[2])
FMul(a, b) == Frac(a[1] * b[1], a[2] * b[2])
FDiv(a, b) == Frac(a[1] * b[2], a[2] * b[1])
FInt(n) == <<n, 1>>

\* the literal 0.5 of line 397
Half == <<1, 2>>

\* the channels of a tensor and the elements of a tensor of n channels
ChannelsOf(t) == {e[2] : e \in DOMAIN t}
ElemsOf(n) == Samples \X (0..(n - 1)) \X (1..NumPix)

\* unet_config['out_channels']: the network predicts every channel of the field
OutChannels == Cardinality(Channels)

\* a selection that always takes every known channel
MaskChannelsAll == cfg.known_channels

\* lines 374-378: the channels of the mask that are concatenated
MaskChannels ==
    IF cfg.same_mask THEN <<cfg.known_channels[1]>> ELSE cfg.known_channels

\* mask[:, channels]
SelectChannels(t, channels) ==
    [e \in ElemsOf(Len(channels)) |-> t[<<e[1], channels[e[2] + 1], e[3]>>]]

\* torch.concatenate((a, b), dim=1)
Concatenate(a, b) ==
    LET na == Cardinality(ChannelsOf(a))
        nb == Cardinality(ChannelsOf(b))
    IN  [e \in ElemsOf(na + nb) |->
            IF e[2] < na THEN a[e] ELSE b[<<e[1], e[2] - na, e[3]>>]]

\* noisy_images[:, :n]
FirstChannels(t, n) ==
    [e \in ElemsOf(IF n < Cardinality(ChannelsOf(t)) THEN n
                   ELSE Cardinality(ChannelsOf(t))) |-> t[e]]

\* get_sigmas(noise_scheduler, timesteps, ...): the noise level of each sample
GetSigmas(timesteps) == [b \in Samples |-> Sigmas[timesteps[b]]]

\* noise_scheduler.precondition_inputs(sample, sigmas): the sample scaled by
\* c_in(sigma), kept as the term it is
PreconditionInputs(sample, sigmas) ==
    [scaled |-> sample, c_in_of |-> sigmas]

\* what the network returns for an input: a tensor of OutChannels channels
UnetOutputs ==
    {[e \in ElemsOf(OutChannels) |-> 0],
     [e \in ElemsOf(OutChannels) |-> e[1] + e[2]]}

\* what noise_scheduler.precondition_outputs returns: a tensor of the shape of
\* the network output
PreconditionedOutputs(model_output) ==
    {[e \in DOMAIN model_output |-> model_output[e] + k * e[1]] : k \in {0, 1}}

\* a weighting that is 1 for every sample (the loss of line 399)
WeightingUnit(sigmas) == [b \in Samples |-> FInt(1)]

\* line 397: (sigmas ** 2 + 0.5 ** 2) / (sigmas * 0.5) ** 2
Weighting(sigmas) ==
    [b \in Samples |->
        LET sg == FInt(sigmas[b])
            scaled == FMul(sg, Half)
        IN  FDiv(FAdd(FMul(sg, sg), FMul(Half, Half)), FMul(scaled, scaled))]

RECURSIVE FSum(_, _)
FSum(f, S) ==
    IF S = {} THEN FInt(0)
    ELSE LET e == CHOOSE x \in S : TRUE
         IN  FAdd(f[e], FSum(f, S \ {e}))

\* line 398: (weighting * (clean_images - model_output) ** 2).mean()
WeightedLoss(weighting, clean, output) ==
    LET term == [e \in DOMAIN clean |->
                    FMul(weighting[e[1]],
                         FInt((clean[e] - output[e]) * (clean[e] - output[e])))]
    IN  FDiv(FSum(term, DOMAIN clean), FInt(Cardinality(DOMAIN clean)))

LossNoises == {[e \in Elems |-> 0 - e[1]]}

\* the scatter masks that observe the known channels of sample 1 everywhere
\* and those of the other samples everywhere or nowhere
LossMasks(known_channels) ==
    {m \in ScatterMasks(known_channels) :
        \E v \in {0, 1} :
            \A e \in Elems :
                e[2] \in Range(known_channels) =>
                    m[e] = IF e[1] = 1 THEN 1 ELSE v}

\* lines 347-379 of one micro-step: the batch, its noise, timesteps and mask,
\* and the noised field
NoiseBatch ==
    /\ ts.pc = "batch"
    /\ \E c \in CleanBatches, n \in LossNoises, t \in [Samples -> DOMAIN Sigmas],
          m \in LossMasks(cfg.known_channels) :
          ts' = [ts EXCEPT !.pc = "concat",
                           !.micro = @ + 1,
                           !.clean_images = c,
                           !.timesteps = t,
                           !.mask = m,
                           !.noisy_images = AddNoise(c, MaskedNoise(n, m), t)]
    /\ UNCHANGED <<cfg, st, outdir, saved, printed, writes>>

\* lines 374-380
ConcatMask ==
    LET concat_mask == SelectChannels(ts.mask, MaskChannels)
    IN  /\ ts.pc = "concat"
        /\ ts' = [ts EXCEPT !.pc = "precondition_inputs",
                            !.concat_mask = concat_mask,
                            !.noisy_images = Concatenate(ts.noisy_images, concat_mask)]
        /\ UNCHANGED <<cfg, st, outdir, saved, printed, writes>>

\* lines 382-384: sigmas and x_in are assigned in EDM mode only
PreconditionInput ==
    /\ ts.pc = "precondition_inputs"
    /\ ts' = IF cfg.do_edm_style_training
             THEN [ts EXCEPT !.pc = "unet",
                             !.sigmas = <<GetSigmas(ts.timesteps)>>,
                             !.x_in = <<PreconditionInputs(ts.noisy_images,
                                                           GetSigmas(ts.timesteps))>>,
                             !.x_in_micro = ts.micro]
             ELSE [ts EXCEPT !.pc = "unet"]
    /\ UNCHANGED <<cfg, st, outdir, saved, printed, writes>>

\* line 386: model_output = unet(x_in, timesteps); reading a local that was
\* never assigned raises UnboundLocalError
UnetForward ==
    /\ ts.pc = "unet"
    /\ IF ts.x_in = <<>>
       THEN ts' = [ts EXCEPT !.pc = "raised", !.raised = "UnboundLocalError"]
       ELSE \E out \in UnetOutputs :
               ts' = [ts EXCEPT !.pc = "precondition_outputs",
                                !.model_output = out]
    /\ UNCHANGED <<cfg, st, outdir, saved, printed, writes>>

\* lines 388-392
PreconditionOutput ==
    LET sample == FirstChannels(ts.noisy_images, OutChannels)
    IN  /\ ts.pc = "precondition_outputs"
        /\ IF cfg.do_edm_style_training
           THEN \E d \in PreconditionedOutputs(ts.model_output) :
                   ts' = [ts EXCEPT !.pc = "loss",
                                    !.precondition_sample = sample,
                                    !.model_output = d]
           ELSE ts' = [ts EXCEPT !.pc = "loss"]
        /\ UNCHANGED <<cfg, st, outdir, saved, printed, writes>>

\* lines 397-398
ComputeLoss ==
    /\ ts.pc = "loss"
    /\ ts' = IF cfg.do_edm_style_training
             THEN [ts EXCEPT !.pc = "accumulate",
                             !.weighting = Weighting(ts.sigmas[1]),
                             !.loss = <<WeightedLoss(Weighting(ts.sigmas[1]),
                                                     ts.clean_images, ts.model_output)>>,
                             !.loss_micro = ts.micro]
             ELSE [ts EXCEPT !.pc = "accumulate"]
    /\ UNCHANGED <<cfg, st, outdir, saved, printed, writes>>

\* lines 402-404: train_loss += loss.item() / ...; accelerator.backward(loss);
\* then the next batch
AccumulateLoss ==
    /\ ts.pc = "accumulate"
    /\ ts' = IF ts.loss = <<>>
             THEN [ts EXCEPT !.pc = "raised", !.raised = "UnboundLocalError"]
             ELSE [ts EXCEPT !.pc = IF ts.micro < PreparedLen THEN "batch"
                                    ELSE "epoch_end"]
    /\ UNCHANGED <<cfg, st, outdir, saved, printed, writes>>

NextLoss ==
    \/ NoiseBatch
    \/ ConcatMask
    \/ PreconditionInput
    \/ UnetForward
    \/ PreconditionOutput
    \/ ComputeLoss
    \/ AccumulateLoss

LossCfgs ==
    {[c EXCEPT !.len_raw = 2] @@ [do_edm_style_training |-> d] :
        c \in StepCfgsOf(KnownChannelChoices), d \in BOOLEAN}

InitLoss ==
    /\ cfg \in LossCfgs
    /\ outdir = OldOutdir({})
    /\ st = [p \in AllProcs |-> InitProc(IsMainProcess(p))]
    /\ saved = <<>>
    /\ printed = {}
    /\ writes = {}
    /\ ts = [pc |-> "batch",
             micro |-> 0,
             clean_images |-> <<>>,
             timesteps |-> <<>>,
             mask |-> <<>>,
             noisy_images |-> <<>>,
             concat_mask |-> <<>>,
             sigmas |-> <<>>,
             x_in |-> <<>>,
             x_in_micro |-> 0,
             model_output |-> <<>>,
             precondition_sample |-> <<>>,
             weighting |-> <<>>,
             loss |-> <<>>,
             loss_micro |-> 0,
             raised |-> ""]

SpecLoss == InitLoss /\ [][NextLoss]_vars

-----------------------------------------------------------------------------
(* diffuserUNet2D (utils/vt_utils.py): construction and forward call.  None *)
(* is the empty tuple, a given value v is <<v>>.                            *)

MaxBlocks == 2     \* length of each block list: 0..MaxBlocks

BlockLists(name) == {[i \in 1..n |-> name] : n \in 0..MaxBlocks}
ChannelLists == {[i \in 1..n |-> 32 * i] : n \in 0..MaxBlocks}
ClassEmbedTypes == {<<>>, <<"identity">>, <<"timestep">>}
NumClassEmbeds == {<<>>, <<10>>}

\* a check that compares the down and up block lists only
InputErrorDownUpOnly(u) ==
    IF Len(u.down_block_types) # Len(u.up_block_types)
    THEN "Must provide the same number of down_block_types as up_block_types"
    ELSE ""

\* lines 238-246: the message of the ValueError, "" when the lists agree
InputError(u) ==
    IF Len(u.down_block_types) # Len(u.up_block_types)
    THEN "Must provide the same number of down_block_types as up_block_types"
    ELSE IF Len(u.block_out_channels) # Len(u.down_block_types)
    THEN "Must provide the same number of block_out_channels as down_block_types"
    ELSE ""

\* lines 252-257
ClassEmbeddingOf(u) ==
    IF u.class_embed_type = <<>> /\ u.num_class_embeds # <<>> THEN "Embedding"
    ELSE IF u.class_embed_type = <<"identity">> THEN "Identity"
    ELSE "None"

\* a check that only looks for missing labels
LabelErrorMissingOnly(u) ==
    IF u.class_embedding # "None" /\ u.class_labels = <<>>
    THEN "class_labels should be provided when doing class conditioning"
    ELSE ""

\* lines 367-374: the message of the ValueError, "" when labels and class
\* embedding agree
LabelError(u) ==
    IF u.class_embedding # "None"
    THEN IF u.class_labels = <<>>
         THEN "class_labels should be provided when doing class conditioning"
         ELSE ""
    ELSE IF u.class_labels # <<>>
    THEN "class_embedding needs to be initialized in order to use class conditioning"
    ELSE ""

Raise(u, error, message) ==
    [u EXCEPT !.pc = "raised", !.raised = error, !.message = message]

\* lines 232-235: time_embed_dim reads block_out_channels[0] when
\* num_class_embeds is given
TimeEmbedDim ==
    /\ ts.pc = "init"
    /\ ts' = IF ts.num_class_embeds = <<>>
             THEN [ts EXCEPT !.pc = "check_inputs"]
             ELSE IF Len(ts.block_out_channels) = 0
             THEN Raise(ts, "IndexError", "tuple index out of range")
             ELSE [ts EXCEPT !.pc = "check_inputs",
                             !.time_embed_dim = <<ts.block_out_channels[1] * 4>>]
    /\ UNCHANGED <<cfg, st, outdir, saved, printed, writes>>

\* lines 237-246
CheckInputs ==
    /\ ts.pc = "check_inputs"
    /\ ts' = IF InputError(ts) # ""
             THEN Raise(ts, "ValueError", InputError(ts))
             ELSE [ts EXCEPT !.pc = "conv_in"]
    /\ UNCHANGED <<cfg, st, outdir, saved, printed, writes>>

\* line 249
BuildConvIn ==
    /\ ts.pc = "conv_in"
    /\ ts' = IF Len(ts.block_out_channels) = 0
             THEN Raise(ts, "IndexError", "tuple index out of range")
             ELSE [ts EXCEPT !.pc = "class_embedding",
                             !.layers = Append(@, "conv_in")]
    /\ UNCHANGED <<cfg, st, outdir, saved, printed, writes>>

\* lines 251-257
BuildClassEmbedding ==
    /\ ts.pc = "class_embedding"
    /\ ts' = [ts EXCEPT !.pc = "blocks",
                        !.class_embedding = ClassEmbeddingOf(ts),
                        !.layers = IF ClassEmbeddingOf(ts) = "None" THEN @
                                   ELSE Append(@, "class_embedding")]
    /\ UNCHANGED <<cfg, st, outdir, saved, printed, writes>>

\* lines 259-336: down blocks, mid block, up blocks, output layers
BuildBlocks ==
    /\ ts.pc = "blocks"
    /\ ts' = [ts EXCEPT !.pc = "constructed",
                        !.layers = @ \o ts.down_block_types \o <<"mid_block">>
                                     \o ts.up_block_types
                                     \o <<"conv_norm_out", "conv_act", "conv_out">>]
    /\ UNCHANGED <<cfg, st, outdir, saved, printed, writes>>

\* lines 338-365: a call of forward, with or without class labels
CallForward ==
    /\ ts.pc = "constructed"
    /\ \E labels \in {<<>>, <<"labels">>} :
          ts' = [ts EXCEPT !.pc = "check_labels", !.class_labels = labels]
    /\ UNCHANGED <<cfg, st, outdir, saved, printed, writes>>

\* lines 367-374
CheckLabels ==
    /\ ts.pc = "check_labels"
    /\ ts' = IF LabelError(ts) # ""
             THEN Raise(ts, "ValueError", LabelError(ts))
             ELSE [ts EXCEPT !.pc = "network",
                             !.applied = IF ts.class_embedding # "None"
                                         THEN Append(@, "class_embedding") ELSE @]
    /\ UNCHANGED <<cfg, st, outdir, saved, printed, writes>>

\* lines 376-417: conv_in, the blocks and the output layers
RunNetwork ==
    /\ ts.pc = "network"
    /\ ts' = [ts EXCEPT !.pc = "returned",
                        !.applied = @ \o <<"conv_in">> \o ts.down_block_types
                                      \o <<"mid_block">> \o ts.up_block_types
                                      \o <<"conv_norm_out", "conv_act", "conv_out">>]
    /\ UNCHANGED <<cfg, st, outdir, saved, printed, writes>>

NextUNet ==
    \/ TimeEmbedDim
    \/ CheckInputs
    \/ BuildConvIn
    \/ BuildClassEmbedding
    \/ BuildBlocks
    \/ CallForward
    \/ CheckLabels
    \/ RunNetwork

InitUNet ==
    /\ cfg \in StepCfgsOf({<<0>>})
    /\ outdir = OldOutdir({})
    /\ st = [p \in AllProcs |-> InitProc(IsMainProcess(p))]
    /\ saved = <<>>
    /\ printed = {}
    /\ writes = {}
    /\ \E d \in BlockLists("DownBlock2D"), u \in BlockLists("UpBlock2D"),
          c \in ChannelLists, t \in ClassEmbedTypes, n \in NumClassEmbeds :
          ts = [pc |-> "init",
                down_block_types |-> d,
                up_block_types |-> u,
                block_out_channels |-> c,
                class_embed_type |-> t,
                num_class_embeds |-> n,
                time_embed_dim |-> <<>>,
                class_embedding |-> "None",
                layers |-> <<>>,
                class_labels |-> <<>>,
                applied |-> <<>>,
                raised |-> "",
                message |-> ""]

SpecUNet == InitUNet /\ [][NextUNet]_vars

-----------------------------------------------------------------------------
(* evaluate() (lines 35-86) and the random state around it.  The state of a *)
(* generator is its seed and the number of values drawn from it; the state  *)
(* of torch's default generator is the number of values drawn from it.      *)

MaxCalls == 2      \* calls of evaluate followed: 1..MaxCalls
MaxDraws == 2      \* training draws from the default generator: 0..MaxDraws

Seeds == {0, 1}

\* a generator that takes its seed from the default generator
GeneratorFromDefault(seed) == [seed |-> ts.default_rng, drawn |-> 0]

\* line 39: torch.Generator(device='cpu').manual_seed(config.seed)
ManualSeed(seed) == [seed |-> seed, drawn |-> 0]

\* known_latents[:config.eval_batch_size]
FirstSamples(t, n) == [e \in {x \in DOMAIN t : x[1] <= n} |-> t[e]]

\* create_scatter_mask(batch, channels, ratio, generator=g): a binary mask of
\* the shape of batch, zero outside the known channels, fixed by the state of g
ScatterMaskFrom(batch, known_channels, g) ==
    [e \in DOMAIN batch |->
        IF e[2] \in Range(known_channels)
        THEN (g.seed + g.drawn + e[1] + e[3]) % 2
        ELSE 0]

\* the training loop between two evaluations: a draw from the default
\* generator (lines 351-372)
TrainDraw ==
    /\ ts.pc = "training"
    /\ ts.default_rng < MaxDraws
    /\ ts' = [ts EXCEPT !.default_rng = @ + 1]
    /\ UNCHANGED <<cfg, st, outdir, saved, printed, writes>>

\* line 483 and lines 36-39: evaluate is called with the last batch and seeds
\* its own generator
EnterEvaluate ==
    /\ ts.pc = "training"
    /\ ts.calls < MaxCalls
    /\ \E batch \in CleanBatches :
          ts' = [ts EXCEPT !.pc = "tmp_latents",
                           !.calls = @ + 1,
                           !.entry_default_rng = ts.default_rng,
                           !.known_latents = batch,
                           !.previous_mask = ts.mask,
                           !.generator = ManualSeed(cfg.seed)]
    /\ UNCHANGED <<cfg, st, outdir, saved, printed, writes>>

\* lines 40-41
CreateEvalMask ==
    LET tmp_latents == FirstSamples(ts.known_latents, cfg.eval_batch_size)
    IN  /\ ts.pc = "tmp_latents"
        /\ ts' = [ts EXCEPT !.pc = "pipeline",
                            !.tmp_latents = tmp_latents,
                            !.mask = ScatterMaskFrom(tmp_latents, cfg.known_channels,
                                                     ts.generator),
                            !.generator = [@ EXCEPT !.drawn = @ + 1]]
        /\ UNCHANGED <<cfg, st, outdir, saved, printed, writes>>

\* lines 43-52: the pipeline is given the mask and the generator and draws its
\* starting noise from that generator
StartPipeline ==
    /\ ts.pc = "pipeline"
    /\ ts' = [ts EXCEPT !.pc = "denoise",
                        !.pipeline_mask = ts.mask,
                        !.denoised = 0,
                        !.generator = [@ EXCEPT !.drawn = @ + 1]]
    /\ UNCHANGED <<cfg, st, outdir, saved, printed, writes>>

\* one of the num_inference_steps denoising steps of the pipeline
DenoiseStep ==
    /\ ts.pc = "denoise"
    /\ ts.denoised < NumInferenceSteps
    /\ ts' = [ts EXCEPT !.denoised = @ + 1,
                        !.step_masks = @ \cup {ts.pipeline_mask},
                        !.generator = [@ EXCEPT !.drawn = @ + 1]]
    /\ UNCHANGED <<cfg, st, outdir, saved, printed, writes>>

\* lines 60-86: the images are logged and evaluate returns
ReturnFromEvaluate ==
    /\ ts.pc = "denoise"
    /\ ts.denoised = NumInferenceSteps
    /\ ts' = [ts EXCEPT !.pc = "training", !.step_masks = {}]
    /\ UNCHANGED <<cfg, st, outdir, saved, printed, writes>>

NextEval ==
    \/ TrainDraw
    \/ EnterEvaluate
    \/ CreateEvalMask
    \/ StartPipeline
    \/ DenoiseStep
    \/ ReturnFromEvaluate

EvalCfgs ==
    {c @@ [seed |-> sd, eval_batch_size |-> n] :
        c \in StepCfgsOf(KnownChannelChoices), sd \in Seeds, n \in Samples}

InitEval ==
    /\ cfg \in EvalCfgs
    /\ outdir = OldOutdir({})
    /\ st = [p \in AllProcs |-> InitProc(IsMainProcess(p))]
    /\ saved = <<>>
    /\ printed = {}
    /\ writes = {}
    /\ ts = [pc |-> "training",
             calls |-> 0,
             default_rng |-> 0,
             entry_default_rng |-> 0,
             generator |-> <<>>,
             known_latents |-> <<>>,
             tmp_latents |-> <<>>,
             mask |-> <<>>,
             previous_mask |-> <<>>,
             pipeline_mask |-> <<>>,
             step_masks |-> {},
             denoised |-> 0]

SpecEval == InitEval /\ [][NextEval]_vars

-----------------------------------------------------------------------------
(* Properties *)

Main == st["main"]

CheckpointDirs(dir) == {d \in DOMAIN dir : d[1] = "checkpoint"}

\* the k entries of S with the greatest step numbers (all of S when it has
\* fewer)
MostRecent(S, k) ==
    {x \in S : Cardinality({y \in S : ParseInt(y[2]) > ParseInt(x[2])}) < k}

SaveCompletes == Main.pc = "save" /\ st'["main"].pc = "brk"

\* C1 (as stated): with checkpoints_total_limit = L >= 1, after every
\* checkpoint save at most L checkpoint directories exist and they are the L
\* most recent by step number among those that existed before the save and the
\* one just saved; eviction removes the smallest step numbers first.
C1_MostRecentOfAll ==
    [][(SaveCompletes /\ cfg.checkpoints_total_limit # <<>>) =>
        LET L == cfg.checkpoints_total_limit[1]
            pre == Range(Main.checkpoints)
            new == CheckpointName(Main.global_step)
            after == CheckpointDirs(outdir')
        IN  /\ Cardinality(after) <= L
            /\ after = MostRecent(pre \cup {new}, L)
            /\ \A x \in pre \ CheckpointDirs(outdir) :
                 \A y \in CheckpointDirs(outdir) : ParseInt(x[2]) < ParseInt(y[2])]_vars

\* C1 (amended): with checkpoints_total_limit = L >= 1, after every checkpoint
\* save at most L checkpoint directories exist, whatever number existed before:
\* the one just saved and the L - 1 of the earlier ones with the greatest step
\* numbers; eviction removes the smallest step numbers first.
C1_Retention ==
    [][(SaveCompletes /\ cfg.checkpoints_total_limit # <<>>) =>
        LET L == cfg.checkpoints_total_limit[1]
            pre == Range(Main.checkpoints)
            new == CheckpointName(Main.global_step)
            after == CheckpointDirs(outdir')
        IN  /\ Cardinality(after) <= L
            /\ after = {new} \cup MostRecent(pre, L - 1)
            /\ \A x \in pre \ CheckpointDirs(outdir) :
                 \A y \in CheckpointDirs(outdir) : ParseInt(x[2]) < ParseInt(y[2])]_vars

\* a save with a limit, before which more checkpoints than the limit existed
C1_Witness ==
    /\ Main.pc = "brk"
    /\ cfg.checkpoints_total_limit # <<>>
    /\ saved # <<>>
    /\ saved[Len(saved)] = Main.global_step
    /\ Len(Main.checkpoints) > cfg.checkpoints_total_limit[1]
    /\ Cardinality(CheckpointDirs(outdir)) = cfg.checkpoints_total_limit[1]

\* C2: once global_step has reached num_training_steps no further training
\* micro-step is executed, and training never takes global_step beyond
\* num_training_steps, in a fresh and in a resumed run.
C2_BudgetRespected ==
    [][\A p \in AllProcs :
        /\ st[p].global_step >= NumTrainingSteps =>
              st'[p].micro_steps = st[p].micro_steps
        /\ (st[p].pc = "post" /\ st'[p].global_step # st[p].global_step) =>
              st'[p].global_step <= NumTrainingSteps]_vars

\* the batch at index step of an epoch ends an accumulation cycle
SyncPosition(s) ==
    \/ (s.step + 1) % cfg.gradient_accumulation_steps = 0
    \/ s.step + 1 = CeilDiv(cfg.len_raw, cfg.num_processes)

\* C3: the optimizer and LR-scheduler step, the EMA update and the increment
\* of global_step happen once on the micro-step that ends an accumulation
\* cycle (every A-th micro-step or the last batch of the epoch) and on no other.
C3_OncePerCycle ==
    [][\A p \in AllProcs :
        LET s == st[p]
            t == st'[p]
            d == IF SyncPosition(s) THEN 1 ELSE 0
        IN  /\ (s.pc = "backward" /\ t.pc # "backward") =>
                 /\ t.optimizer_steps = s.optimizer_steps + d
                 /\ t.lr_steps = s.lr_steps + d
                 /\ t.unet.ver = s.unet.ver + d
            /\ (s.pc = "post" /\ t.pc # "post") =>
                 /\ t.global_step = s.global_step + d
                 /\ t.ema_steps = s.ema_steps + (IF cfg.use_ema THEN d ELSE 0)
            /\ s.pc \notin {"start", "backward"} =>
                 /\ t.optimizer_steps = s.optimizer_steps
                 /\ t.lr_steps = s.lr_steps
            /\ s.pc \notin {"start", "post"} =>
                 /\ t.global_step = s.global_step
                 /\ t.ema_steps = s.ema_steps]_vars

\* three batches with A = 2: one step after the second, one after the last
C3_Witness ==
    /\ cfg.gradient_accumulation_steps = 2
    /\ Main.pc = "brk"
    /\ Main.epoch = 0
    /\ Main.micro_steps = 3
    /\ Main.optimizer_steps = Main.initial_global_step + 2
    /\ Main.global_step = Main.initial_global_step + 2

\* C4: the run saves a checkpoint exactly at the steps that are multiples of
\* checkpointing_steps, into checkpoint-<global_step>, so the saved steps are
\* strictly increasing multiples of checkpointing_steps.
C4_CheckpointCadence ==
    LET pending == IF Main.pc \in {"ckpt", "save"} THEN {Main.global_step} ELSE {}
        due == {g \in (Main.initial_global_step + 1)..Main.global_step :
                    g % cfg.checkpointing_steps = 0}
    IN  /\ Main.pc # "post" => Range(saved) = due \ pending
        /\ \A i, j \in DOMAIN saved : i < j => saved[i] < saved[j]
        /\ (saved # <<>> /\ Main.pc # "save") =>
              <<"checkpoint", Digits(saved[Len(saved)])>> \in DOMAIN outdir

C4_Witness ==
    /\ cfg.checkpointing_steps = 2
    /\ Main.pc = "brk"
    /\ saved = <<2, 4>>

\* C5: at the end of epoch e evaluate() runs, on the main process only, iff
\* (e + 1) is a multiple of save_image_epochs or e is the final epoch.
C5_EvaluationCadence ==
    \A p \in AllProcs : \A e \in st[p].ended :
        \/ st[p].pc \in {"eval_store", "eval"} /\ st[p].epoch = e
        \/ e \in st[p].evaluated <=>
              /\ p = "main"
              /\ \/ (e + 1) % cfg.save_image_epochs = 0
                 \/ e = NumEpochs - 1

\* the final epoch is evaluated off the cadence, by the main process alone
C5_Witness ==
    /\ cfg.num_processes = 2
    /\ cfg.save_image_epochs = 2
    /\ NumEpochs = 3
    /\ Main.evaluated = {1, 2}
    /\ Main.ended = {0, 1, 2}
    /\ st["worker"].ended = {0, 1, 2}
    /\ st["worker"].evaluated = {}

\* C6: a completed evaluation leaves the training state as it was: with EMA
\* the live parameters are back in the network, and global_step, optimizer,
\* LR scheduler, noise scheduler and EMA shadow are untouched.
C6_EvaluationFrame ==
    \A p \in AllProcs :
        LET s == st[p]
        IN  (s.pc = "barrier" /\ s.eval_snapshot # <<>>
                /\ s.eval_snapshot[1].epoch = s.epoch) =>
            LET before == s.eval_snapshot[1].state
            IN  /\ cfg.use_ema => s.unet = before.unet
                /\ s.global_step = before.global_step
                /\ s.optimizer_steps = before.optimizer
                /\ s.lr_steps = before.lr_scheduler
                /\ s.noise_scheduler = before.noise_scheduler
                /\ s.ema_shadow = before.ema_shadow
                /\ s.ema_steps = before.ema_steps

C6_Witness ==
    /\ cfg.use_ema
    /\ Main.pc = "barrier"
    /\ Main.epoch \in Main.evaluated
    /\ Main.eval_snapshot # <<>>
    /\ Main.eval_snapshot[1].epoch = Main.epoch
    /\ Main.ema_shadow.ver > 0
    /\ Main.eval_scheduler # <<>>

\* C7: when the evaluation has ended, normally or by a failure, the network
\* holds the live parameters again: the stored parameters were restored.
C7_RestoredOnEveryExit ==
    \A p \in AllProcs :
        st[p].pc \in {"barrier", "crashed"} =>
            st[p].unet.kind = "live" /\ st[p].temp_stored = <<>>

\* C8: a "latest" request with no checkpoint in the output directory is not
\* fatal: the notice is printed, the request is cleared and the run starts at
\* global_step = initial_global_step = first_epoch = 0.
C8_LatestFallsBack ==
    [][\A p \in AllProcs :
        (/\ st[p].pc = "start"
         /\ st'[p].pc # "start"
         /\ st[p].resume_from_checkpoint = <<"latest">>
         /\ CheckpointDirs(outdir) = {}) =>
            /\ st'[p].pc = "epoch_head"
            /\ st'[p].resume_from_checkpoint = <<>>
            /\ st'[p].global_step = 0
            /\ st'[p].initial_global_step = 0
            /\ st'[p].first_epoch = 0
            /\ st'[p].epoch = 0
            /\ st'[p].unet = st[p].unet
            /\ p = "main" =>
                 "does not exist, starting a new training run" \in printed']_vars

C8_Witness ==
    /\ cfg.resume_from_checkpoint = <<"latest">>
    /\ Main.resume_from_checkpoint = <<>>
    /\ "does not exist, starting a new training run" \in printed
    /\ Main.pc = "done"
    /\ Main.global_step = NumTrainingSteps

\* C9: "latest" resumes from the checkpoint directory with the greatest
\* integer step suffix; after any resume global_step is the suffix of the
\* chosen checkpoint and first_epoch = global_step // num_update_steps_per_epoch.
C9_LatestIsNumericMax ==
    [][\A p \in AllProcs :
        (/\ st[p].pc = "start"
         /\ st'[p].pc = "epoch_head"
         /\ st[p].resume_from_checkpoint # <<>>
         /\ CheckpointDirs(outdir) # {}) =>
            LET g == st'[p].global_step
                chosen == <<"checkpoint", Digits(g)>>
            IN  /\ chosen \in CheckpointDirs(outdir)
                /\ st[p].resume_from_checkpoint = <<"latest">> =>
                     \A d \in CheckpointDirs(outdir) : ParseInt(d[2]) <= g
                /\ st[p].resume_from_checkpoint # <<"latest">> =>
                     chosen = st[p].resume_from_checkpoint
                /\ st'[p].initial_global_step = g
                /\ st'[p].first_epoch =
                     g \div CeilDiv(CeilDiv(cfg.len_raw, cfg.num_processes),
                                    cfg.gradient_accumulation_steps)
                /\ st'[p].epoch = st'[p].first_epoch]_vars

\* checkpoint-9 and checkpoint-10 exist and the run resumed from step 10
C9_Witness ==
    /\ cfg.resume_from_checkpoint = <<"latest">>
    /\ Main.initial_global_step = 10
    /\ Main.pc = "forward"
    /\ <<"checkpoint", <<9>>>> \in DOMAIN outdir

\* C10: in a training step the noise handed to add_noise is zero wherever the
\* scatter mask is 1 and is the sampled noise wherever the mask is 0, so the
\* noisy field equals the clean field at the observed positions, whatever the
\* timestep.
C10_ObservedKeptClean ==
    /\ ts.pc \in {"add_noise", "noised"} =>
          \A e \in Elems :
              /\ ts.mask[e] = 1 => ts.noise[e] = 0
              /\ ts.mask[e] = 0 => ts.noise[e] = ts.sampled_noise[e]
    /\ ts.pc = "noised" =>
          \A e \in Elems :
              ts.mask[e] = 1 => ts.noisy_images[e] = ts.clean_images[e]

\* a noised batch with an observed and an unobserved position, two timesteps
C10_Witness ==
    /\ ts.pc = "noised"
    /\ \E e \in Elems : ts.mask[e] = 1 /\ ts.sampled_noise[e] # 0
    /\ \E e \in Elems : ts.mask[e] = 0 /\ ts.noisy_images[e] # ts.clean_images[e]
    /\ ts.timesteps[1] # ts.timesteps[2]

\* C13: only the main process writes to the shared output directory: the
\* checkpoint eviction, the checkpoint save and the end-of-epoch pipeline save
\* are never executed by a worker, and no two processes are saving the
\* pipeline at the same time.
C13_OnlyMainWrites ==
    /\ \A w \in writes : IsMainProcess(w[1])
    /\ \A p \in AllProcs :
          st[p].pc \in {"ckpt", "save", "pipe_save"} => IsMainProcess(p)

\* C14: while the main process evicts old checkpoints and saves a new one the
\* workers wait: no worker starts a training micro-step while the main process
\* is between the checkpoint test and the end of the save.
C14_WorkersWaitForSave ==
    [][\A p \in AllProcs :
        (/\ ~IsMainProcess(p)
         /\ st[p].pc = "forward"
         /\ st'[p].micro_steps = st[p].micro_steps + 1)
        => Main.pc \notin {"ckpt", "save"}]_vars

\* C15: when num_training_steps is not configured it is num_epochs times the
\* steps per epoch of the prepared dataloader and the recomputed number of
\* epochs is the configured one; when it is configured the number of epochs is
\* ceil(num_training_steps / steps per epoch).
C15_InferredSteps ==
    LET prepared == CeilDiv(cfg.len_raw, cfg.num_processes)
        per_epoch == CeilDiv(prepared, cfg.gradient_accumulation_steps)
    IN  Main.pc # "start" =>
          /\ OverrodeMaxTrainSteps =>
                /\ NumTrainingSteps = cfg.num_epochs * per_epoch
                /\ NumEpochs = cfg.num_epochs
          /\ ~OverrodeMaxTrainSteps =>
                /\ NumTrainingSteps = cfg.num_training_steps
                /\ NumEpochs = CeilDiv(cfg.num_training_steps, per_epoch)

\* a finished two-process run with inferred steps whose prepared dataloader is
\* shorter than the raw one
C15_Witness ==
    /\ Main.pc = "done"
    /\ OverrodeMaxTrainSteps
    /\ cfg.num_processes = 2
    /\ RawUpdateStepsPerEpoch # NumUpdateStepsPerEpoch
    /\ Main.epoch = cfg.num_epochs
    /\ cfg.num_epochs > 1

\* a finished run with configured steps that do not fill the last epoch
C15_WitnessConfigured ==
    /\ Main.pc = "done"
    /\ ~OverrodeMaxTrainSteps
    /\ cfg.num_training_steps % NumUpdateStepsPerEpoch # 0

\* C12: every stochastic draw of a training step (noise, timesteps, mask ratio,
\* scatter mask) is taken from the explicitly passed generator and none reads
\* or advances the hidden process-wide random state.
C12_ExplicitGenerators ==
    /\ \A i \in DOMAIN ts.drawn : ts.drawn[i].from = "generator"
    /\ ts.rng.default = 0

\* C11: the mask channels concatenated to the noisy field are 1 (the mask of
\* the first known channel) when same_mask is set and len(known_channels)
\* otherwise, so the network input has out_channels + 1 respectively
\* out_channels + len(known_channels) channels; only the first out_channels
\* channels, the field and never a mask channel, enter the output
\* preconditioning.
C11_MaskChannelCount ==
    LET k == IF cfg.same_mask THEN 1 ELSE Len(cfg.known_channels)
        selected == IF cfg.same_mask THEN <<cfg.known_channels[1]>>
                    ELSE cfg.known_channels
        fields == ChannelsOf(ts.clean_images)
    IN  /\ ts.pc \in {"precondition_inputs", "unet", "precondition_outputs", "loss"} =>
              /\ ChannelsOf(ts.concat_mask) = 0..(k - 1)
              /\ ChannelsOf(ts.noisy_images) = 0..(OutChannels + k - 1)
              /\ \A e \in DOMAIN ts.noisy_images :
                    e[2] >= OutChannels =>
                        ts.noisy_images[e] =
                            ts.mask[<<e[1], selected[e[2] - OutChannels + 1], e[3]>>]
        /\ (ts.pc = "precondition_outputs" /\ cfg.do_edm_style_training) =>
              ChannelsOf(ts.x_in[1].scaled) = 0..(OutChannels + k - 1)
        /\ (ts.pc = "loss" /\ cfg.do_edm_style_training) =>
              /\ ChannelsOf(ts.precondition_sample) = fields
              /\ Cardinality(fields) = OutChannels
              /\ \A e \in DOMAIN ts.precondition_sample :
                    ts.precondition_sample[e] = ts.noisy_images[e]

\* a preconditioned micro-step with two known channels and a shared mask
C11_Witness ==
    /\ ts.pc = "loss"
    /\ cfg.do_edm_style_training
    /\ cfg.same_mask
    /\ Len(cfg.known_channels) = 2
    /\ ChannelsOf(ts.noisy_images) = 0..OutChannels
    /\ ts.precondition_sample # <<>>

RECURSIVE ISum(_, _)
ISum(f, S) ==
    IF S = {} THEN 0
    ELSE LET e == CHOOSE x \in S : TRUE
         IN  f[e] + ISum(f, S \ {e})

RECURSIVE IProd(_, _)
IProd(f, S) ==
    IF S = {} THEN 1
    ELSE LET e == CHOOSE x \in S : TRUE
         IN  f[e] * IProd(f, S \ {e})

C20_AssignedBeforeUse ==
    /\ ts.pc = "unet" => (ts.x_in # <<>> /\ ts.x_in_micro = ts.micro)
    /\ ts.pc = "accumulate" => (ts.loss # <<>> /\ ts.loss_micro = ts.micro)

ListsMismatch ==
    \/ Len(ts.down_block_types) # Len(ts.up_block_types)
    \/ Len(ts.block_out_channels) # Len(ts.down_block_types)

\* C17 (as stated): constructing diffuserUNet2D fails with a ValueError, before
\* any layer is built, whenever the three lists do not have the same length;
\* construction proceeds only when they do.
C17_ValueErrorOnMismatch ==
    /\ (ListsMismatch /\ ts.pc \notin {"init", "check_inputs"}) =>
          (ts.pc = "raised" /\ ts.raised = "ValueError" /\ ts.layers = <<>>)
    /\ ts.layers # <<>> => ~ListsMismatch

\* C17 (amended): whenever the three lists do not have the same length the
\* construction fails before any layer is built, with a ValueError, or with an
\* IndexError when block_out_channels is empty and num_class_embeds is given;
\* construction proceeds only when the lengths are equal.
C17_FailsFastOnMismatch ==
    /\ (ListsMismatch /\ ts.pc \notin {"init", "check_inputs"}) =>
          /\ ts.pc = "raised"
          /\ ts.layers = <<>>
          /\ IF Len(ts.block_out_channels) = 0 /\ ts.num_class_embeds # <<>>
             THEN ts.raised = "IndexError"
             ELSE ts.raised = "ValueError"
    /\ ts.layers # <<>> => ~ListsMismatch

\* a construction refused for its block_out_channels alone
C17_Witness ==
    /\ ts.pc = "raised"
    /\ ts.raised = "ValueError"
    /\ Len(ts.down_block_types) = Len(ts.up_block_types)
    /\ Len(ts.block_out_channels) # Len(ts.down_block_types)
    /\ Len(ts.block_out_channels) > 0
    /\ ts.num_class_embeds # <<>>
    /\ ts.layers = <<>>

\* C18: forward raises a ValueError before any convolution when the model has
\* a class embedding and class_labels is None, and when it has none and
\* class_labels is given; the network runs only when the two agree.
C18_LabelsMustAgree ==
    LET called == ts.pc \in {"network", "returned"} \/ (ts.pc = "raised" /\ ts.layers # <<>>)
        agree == (ts.class_embedding # "None") <=> (ts.class_labels # <<>>)
    IN  /\ (called /\ ~agree) =>
              (ts.pc = "raised" /\ ts.raised = "ValueError" /\ ts.applied = <<>>)
        /\ (called /\ agree) => ts.pc # "raised"
        /\ ts.applied # <<>> => agree

\* a call with labels on a model built without class embedding, refused
C18_Witness ==
    /\ ts.pc = "raised"
    /\ ts.layers # <<>>
    /\ ts.class_embedding = "None"
    /\ ts.class_labels # <<>>
    /\ ts.raised = "ValueError"
    /\ ts.applied = <<>>

\* C16: evaluate() builds its scatter mask once per call from a private
\* generator freshly seeded with config.seed: every denoising step of the call
\* uses that mask, two calls on batches of the same shape get the same mask,
\* and the call neither reads nor advances the random state of the training
\* loop.
C16_EvaluationMask ==
    /\ ts.pc \in {"pipeline", "denoise"} =>
          /\ ts.mask = ScatterMaskFrom(ts.tmp_latents, cfg.known_channels,
                                       [seed |-> cfg.seed, drawn |-> 0])
          /\ ts.previous_mask # <<>> => ts.mask = ts.previous_mask
    /\ ts.pc = "denoise" => ts.step_masks \subseteq {ts.mask}
    /\ ts.pc # "training" => ts.default_rng = ts.entry_default_rng

\* the last denoising step of a second call, made after the training loop drew
\* from the default generator
C16_Witness ==
    /\ ts.pc = "denoise"
    /\ ts.calls = 2
    /\ ts.denoised = NumInferenceSteps
    /\ ts.default_rng > 0
    /\ ts.step_masks = {ts.previous_mask}
    /\ \E e \in DOMAIN ts.mask : ts.mask[e] = 1
    /\ \E e \in DOMAIN ts.mask : ts.mask[e] = 0

\* C21: with EMA, on every process ema_model.store and ema_model.restore
\* strictly alternate, starting with store, over the evaluation bracket and
\* the end-of-epoch save bracket, and whenever a training micro-step starts
\* the last store has been restored: the network holds the live parameters and
\* never the EMA shadow weights during training.
C21_StoreRestoreAlternate ==
    cfg.use_ema =>
        \A p \in AllProcs :
            LET s == st[p]
                open == s.ema_calls.store - s.ema_calls.restore
            IN  /\ open \in {0, 1}
                /\ open = 1 <=> s.temp_stored # <<>>
                /\ s.pc \in {"forward", "backward", "post"} =>
                      /\ open = 0
                      /\ s.unet.kind = "live"

\* main and the worker start a micro-step of a later epoch, main after an
\* evaluation bracket and a save bracket, the worker after a save bracket
C21_Witness ==
    /\ cfg.use_ema
    /\ Main.pc = "forward"
    /\ st["worker"].pc = "forward"
    /\ Main.ema_calls = [store |-> 2, restore |-> 2]
    /\ st["worker"].ema_calls = [store |-> 1, restore |-> 1]
    /\ Main.epoch = 1
    /\ Main.ema_shadow.ver > 0

-----------------------------------------------------------------------------
(* Fresh runs that no exception interrupts: main() from line 261 to the    *)
(* accelerator.end_training() of line 508                                  *)

\* the steps of main() when evaluate() and load_state() return normally
NextFresh ==
    \E p \in AllProcs :
        \/ Resume(p)
        \/ EpochHead(p)
        \/ Forward(p)
        \/ Backward(p)
        \/ PostStep(p)
        \/ Evict(p)
        \/ SaveState(p)
        \/ BreakCheck(p)
        \/ EpochEnd(p)
        \/ EvalStore(p)
        \/ Evaluate(p)
        \/ EvalRestore(p)
        \/ WaitForEveryone(p)
        \/ PipeStore(p)
        \/ PipeSave(p)
        \/ PipeRestore(p)
        \/ EndTraining(p)

\* resume_from_checkpoint is None (line 304), on one process or two
FreshCfgs ==
    Cfgs(1..MaxLen, {1, 2}, 1..MaxAccum, StepCfgs, {2}, {2}, {<<1>>},
         BOOLEAN, {<<>>})

InitFresh == InitWith(FreshCfgs, {{}})

\* every launched process keeps running: some enabled step is eventually taken
SpecFresh == InitFresh /\ [][NextFresh]_vars /\ WF_vars(NextFresh)

FreshRun == \A p \in AllProcs : Active(p) => st[p].resume_from_checkpoint = <<>>

AllEnded == \A p \in AllProcs : Active(p) => st[p].pc = "done"

\* the synchronized steps a fresh run has performed once the batches of
\* epoch e are over
StepsAfterEpoch(e) ==
    IF e < NumEpochs - 1 THEN (e + 1) * NumUpdateStepsPerEpoch
    ELSE NumTrainingSteps

-----------------------------------------------------------------------------
(* vt_obs (utils/vt_utils.py): the observation points of a field and the   *)
(* nearest-neighbour fill.  Coordinates count from 0 as in the source; a   *)
(* flattened tensor is a sequence in row-major order.                      *)

MaxDim == 3        \* x_dim, y_dim: 1..MaxDim; spacings: 1..MaxDim + 1
MaxObs == 2        \* nonzero positions of one mask channel: 0..MaxObs
MaxBatch == 2      \* samples of known_fields: 1 or MaxBatch

\* torch.arange(start, stop, step) for step > 0
ARange(start, stop, step) ==
    IF stop <= start THEN <<>>
    ELSE [k \in 1..CeilDiv(stop - start, step) |-> start + (k - 1) * step]

\* cell starts that run up to the last grid line
StartListToEdge(dim, spacing) == ARange(0, dim, spacing)

\* lines 31-32: x_list and y_list, the starts of the whole spacing cells
StartList(dim, spacing) == ARange(0, dim - spacing + 1, spacing)

\* the row-major flattening of a tensor of shape (rows, cols)
Flatten(t, rows, cols) ==
    [k \in 1..(rows * cols) |-> t[<<(k - 1) \div cols, (k - 1) % cols>>]]

\* lines 26-43: vt_obs.__init__
VtObs(x_dim, y_dim, x_spacing, y_spacing, known_channels) ==
    LET x_list == StartList(x_dim, x_spacing)
        y_list == StartList(y_dim, y_spacing)
        shape == (0..(Len(x_list) - 1)) \X (0..(Len(y_list) - 1))
    IN  [x_dim |-> x_dim,
         y_dim |-> y_dim,
         x_spacing |-> x_spacing,
         y_spacing |-> y_spacing,
         x_list |-> x_list,
         y_list |-> y_list,
         \* meshgrid(x_list, y_list, indexing='ij'): shape (len x_list, len y_list)
         x_start_grid |-> [ij \in shape |-> x_list[ij[1] + 1]],
         y_start_grid |-> [ij \in shape |-> y_list[ij[2] + 1]],
         \* meshgrid(linspace, linspace, indexing='xy'): shape (y_dim, x_dim)
         grid_x |-> [ij \in (0..(y_dim - 1)) \X (0..(x_dim - 1)) |-> ij[2]],
         grid_y |-> [ij \in (0..(y_dim - 1)) \X (0..(x_dim - 1)) |-> ij[1]],
         known_channels |-> known_channels]

\* torch.randint(0, high, shape): every tensor it can return
RandInt(high, shape) == [shape -> 0..(high - 1)]

\* lines 51-53: the coordinates structure_obs returns for offsets xo and yo
StructureObsCoords(self, xo, yo) ==
    LET rows == Len(self.x_list)
        cols == Len(self.y_list)
        shape == DOMAIN self.x_start_grid
    IN  [x_coords |-> Flatten([ij \in shape |-> self.x_start_grid[ij] + xo[ij]],
                              rows, cols),
         y_coords |-> Flatten([ij \in shape |-> self.y_start_grid[ij] + yo[ij]],
                              rows, cols)]

\* torch.column_stack((x, y))
ColumnStack(x, y) == [k \in DOMAIN x |-> <<x[k], y[k]>>]

\* lines 45-53: a call of structure_obs on the constructed object
StructureObs ==
    /\ ts.pc = "ready"
    /\ \E xo \in RandInt(ts.self.x_spacing, DOMAIN ts.self.x_start_grid),
          yo \in RandInt(ts.self.y_spacing, DOMAIN ts.self.y_start_grid) :
            LET r == StructureObsCoords(ts.self, xo, yo)
            IN  ts' = [ts EXCEPT !.pc = "observed",
                                 !.x_coords = r.x_coords,
                                 !.y_coords = r.y_coords]
    /\ UNCHANGED <<cfg, st, outdir, saved, printed, writes>>

\* the object under a call of structure_obs: every grid and every spacing
ObsCfgs ==
    {VtObs(xd, yd, xs, ys, <<>>) :
        xd \in 1..MaxDim, yd \in 1..MaxDim,
        xs \in 1..(MaxDim + 1), ys \in 1..(MaxDim + 1)}

\* the locals of __call__ before it is entered
NoCall ==
    [B |-> 0, known_fields |-> <<>>, mask |-> <<>>, coords |-> <<>>,
     b |-> 0, idx |-> 0, grid_points |-> <<>>, interpolated_fields |-> <<>>,
     used_points |-> <<>>]

InitObsWith(Objects) ==
    /\ cfg \in {c \in StepCfgsOf({<<0>>}) : ~c.same_mask}
    /\ outdir = OldOutdir({})
    /\ st = [p \in AllProcs |-> InitProc(IsMainProcess(p))]
    /\ saved = <<>>
    /\ printed = {}
    /\ writes = {}
    /\ \E self \in Objects :
          ts = [pc |-> "ready", self |-> self, x_coords |-> <<>>, y_coords |-> <<>>]
                  @@ NoCall

InitObs == InitObsWith(ObsCfgs)

NextObs == StructureObs

SpecObs == InitObs /\ [][NextObs]_vars

\* the spacing cells of the grid: the starts of the whole cells
SpacingCells ==
    {<<i * ts.self.x_spacing, j * ts.self.y_spacing>> :
        i \in 0..((ts.self.x_dim \div ts.self.x_spacing) - 1),
        j \in 0..((ts.self.y_dim \div ts.self.y_spacing) - 1)}

InCell(x, y, cell) ==
    /\ cell[1] <= x /\ x < cell[1] + ts.self.x_spacing
    /\ cell[2] <= y /\ y < cell[2] + ts.self.y_spacing

\* C23: for x_spacing <= x_dim and y_spacing <= y_dim, structure_obs returns
\* floor(x_dim / x_spacing) * floor(y_dim / y_spacing) points, exactly one in
\* each spacing cell, every point inside the grid, whatever the offsets drawn.
C23_OnePointPerCell ==
    (/\ ts.pc = "observed"
     /\ ts.self.x_spacing <= ts.self.x_dim
     /\ ts.self.y_spacing <= ts.self.y_dim) =>
        LET n == Len(ts.x_coords)
        IN  /\ n = (ts.self.x_dim \div ts.self.x_spacing)
                     * (ts.self.y_dim \div ts.self.y_spacing)
            /\ Len(ts.y_coords) = n
            /\ \A cell \in SpacingCells :
                  Cardinality({k \in 1..n :
                      InCell(ts.x_coords[k], ts.y_coords[k], cell)}) = 1
            /\ \A k \in 1..n :
                  /\ 0 <= ts.x_coords[k] /\ ts.x_coords[k] <= ts.self.x_dim - 1
                  /\ 0 <= ts.y_coords[k] /\ ts.y_coords[k] <= ts.self.y_dim - 1

\* a 3 x 2 grid cut into cells of 2 x 1 with a last column that belongs to no
\* cell: two points, both drawn at the far side of their cells
C23_Witness ==
    /\ ts.pc = "observed"
    /\ ts.self.x_dim = 3 /\ ts.self.x_spacing = 2
    /\ ts.self.y_dim = 2 /\ ts.self.y_spacing = 1
    /\ ts.x_coords = <<1, 1>>
    /\ ts.y_coords = <<0, 1>>

-----------------------------------------------------------------------------
(* vt_obs.__call__ (lines 115-135) with get_grid_points_from_mask and      *)
(* interpolate.  A tensor is a function of its index tuples; a mask is a   *)
(* record of its shape and its values; None is <<>> and a given value v is *)
(* <<v>>.                                                                  *)

\* C of known_fields
NumFieldChannels == Cardinality(Channels)

\* the index tuples of a tensor of the given shape
IndicesOf(shape) ==
    IF Len(shape) = 3
    THEN (0..(shape[1] - 1)) \X (0..(shape[2] - 1)) \X (0..(shape[3] - 1))
    ELSE (0..(shape[1] - 1)) \X (0..(shape[2] - 1)) \X (0..(shape[3] - 1))
            \X (0..(shape[4] - 1))

\* line 20: mask.unsqueeze(0)
Unsqueeze(mask) ==
    [shape |-> <<1>> \o mask.shape,
     val |-> [i \in IndicesOf(<<1>> \o mask.shape) |-> mask.val[Tail(i)]]]

\* line 21: torch.nonzero(mask, as_tuple=True) of a mask (B, C, H, W): the
\* index tuples of the nonzero elements in row-major order
Nonzero(mask) ==
    LET C == mask.shape[2]
        H == mask.shape[3]
        W == mask.shape[4]
        all == [k \in 1..(mask.shape[1] * C * H * W) |->
                  <<(k - 1) \div (C * H * W), ((k - 1) \div (H * W)) % C,
                    ((k - 1) \div W) % H, (k - 1) % W>>]
        IsNonzero(i) == mask.val[i] # 0
    IN  SelectSeq(all, IsNonzero)

\* lines 14-23: the points <<x, y>> of sample batch_idx, channel channel_idx
get_grid_points_from_mask(batch_idx, channel_idx, mask) ==
    LET m == IF Len(mask.shape) = 3 THEN Unsqueeze(mask) ELSE mask
        Target(i) == i[1] = batch_idx /\ i[2] = channel_idx
        hit == SelectSeq(Nonzero(m), Target)
    IN  [k \in DOMAIN hit |-> <<hit[k][4], hit[k][3]>>]

\* torch.cdist compares Euclidean distances; on grid coordinates their
\* squares are integers and order the points the same way
Dist2(p, q) == (p[1] - q[1]) * (p[1] - q[1]) + (p[2] - q[2]) * (p[2] - q[2])

\* line 63: torch.cdist(xi, points)
Cdist(xi, points) ==
    [k \in DOMAIN xi |-> [n \in DOMAIN points |-> Dist2(xi[k], points[n])]]

RECURSIVE ArgMinScan(_, _, _, _)
\* the index of a minimal element of row[1..n], best so far at index i
ArgMinScan(row, n, i, keepFirst) ==
    IF n > Len(row) THEN i
    ELSE IF row[n] < row[i] \/ (~keepFirst /\ row[n] = row[i])
    THEN ArgMinScan(row, n + 1, n, keepFirst)
    ELSE ArgMinScan(row, n + 1, i, keepFirst)

\* an argmin that returns the last minimal element
ArgMinLast(row) == ArgMinScan(row, 2, 1, FALSE)

\* line 64: torch.argmin of a non-empty row: the first minimal element
ArgMin(row) == ArgMinScan(row, 2, 1, TRUE)

\* lines 61-66: _torch_griddata_nearest
torch_griddata_nearest(self, points, values, xi) ==
    LET distances == Cdist(xi, points)
        nearest_indices == [k \in DOMAIN xi |-> ArgMin(distances[k])]
        interpolated_values == [k \in DOMAIN xi |-> values[nearest_indices[k]]]
    IN  \* reshape(y_dim, x_dim)
        [yx \in (0..(self.y_dim - 1)) \X (0..(self.x_dim - 1)) |->
            interpolated_values[yx[1] * self.x_dim + yx[2] + 1]]

\* lines 68-82: interpolate
interpolate(self, grid_points, field) ==
    torch_griddata_nearest(self, grid_points, field,
        ColumnStack(Flatten(self.grid_x, self.y_dim, self.x_dim),
                    Flatten(self.grid_y, self.y_dim, self.x_dim)))

\* line 126: range(C) if self.known_channels is None else self.known_channels
KnownChannelSeq(self) ==
    IF self.known_channels = <<>> THEN [k \in 1..NumFieldChannels |-> k - 1]
    ELSE self.known_channels

\* line 119: in_channels
InChannels(self) == Len(KnownChannelSeq(self))

\* line 129: known_fields[b, known_channel][grid_points[:,1], grid_points[:,0]]
FieldAt(known_fields, b, known_channel, grid_points) ==
    [n \in DOMAIN grid_points |->
        known_fields[<<b, known_channel, grid_points[n][2], grid_points[n][1]>>]]

\* known_fields (B, C, y_dim, x_dim) whose elements all differ
KnownFieldsOf(B, self) ==
    {[i \in IndicesOf(<<B, NumFieldChannels, self.y_dim, self.x_dim>>) |->
        ((i[1] * NumFieldChannels + i[2]) * self.y_dim + i[3]) * self.x_dim + i[4] + 1]}

\* the sets of at most MaxObs positions <<y, x>> of the grid
Patterns(self) ==
    {P \in SUBSET ((0..(self.y_dim - 1)) \X (0..(self.x_dim - 1))) :
        Cardinality(P) <= MaxObs}

\* pattern P moved k positions along the rows of the grid
Advance(P, k, self) ==
    {<<((p[1] * self.x_dim + p[2] + k) % (self.y_dim * self.x_dim)) \div self.x_dim,
       (p[1] * self.x_dim + p[2] + k) % self.x_dim>> : p \in P}

\* a mask of the given shape that holds P, moved on by the sample and the
\* channel index, so that no two channels are observed at the same places
MaskOf(shape, P, self) ==
    [shape |-> shape,
     val |-> [i \in IndicesOf(shape) |->
                LET n == Len(shape)
                    k == IF n = 3 THEN i[1] ELSE i[1] + i[2]
                IN  IF <<i[n - 1], i[n]>> \in Advance(P, k, self) THEN 1 ELSE 0]]

\* x_coords, y_coords given by the caller: P from the last row to the first
CoordsOf(P, self) ==
    LET all == [k \in 1..(self.y_dim * self.x_dim) |->
                  <<(self.y_dim * self.x_dim - k) \div self.x_dim,
                    (self.y_dim * self.x_dim - k) % self.x_dim>>]
        In(p) == p \in P
        pts == SelectSeq(all, In)
    IN  [x_coords |-> [k \in DOMAIN pts |-> pts[k][2]],
         y_coords |-> [k \in DOMAIN pts |-> pts[k][1]]]

\* lines 116-120: __call__ is entered
Call ==
    /\ ts.pc = "ready"
    /\ \E B \in {1, MaxBatch}, P \in Patterns(ts.self),
          kind \in {"none", "coords", "mask3", "mask4"} :
        \E known_fields \in KnownFieldsOf(B, ts.self) :
            /\ kind = "none" => P = {}
            /\ ts' = [ts EXCEPT
                  !.pc = "sample",
                  !.B = B,
                  !.known_fields = known_fields,
                  !.mask =
                      IF kind = "mask3"
                      THEN <<MaskOf(<<NumFieldChannels, ts.self.y_dim, ts.self.x_dim>>,
                                    P, ts.self)>>
                      ELSE IF kind = "mask4"
                      THEN <<MaskOf(<<B, NumFieldChannels, ts.self.y_dim, ts.self.x_dim>>,
                                    P, ts.self)>>
                      ELSE <<>>,
                  !.coords = IF kind = "coords" THEN <<CoordsOf(P, ts.self)>> ELSE <<>>,
                  !.b = 0,
                  !.idx = 0,
                  !.interpolated_fields =
                      [bi \in (0..(B - 1)) \X (0..(InChannels(ts.self) - 1)) |->
                          [yx \in (0..(ts.self.y_dim - 1)) \X (0..(ts.self.x_dim - 1))
                              |-> 0]]]
    /\ UNCHANGED <<cfg, st, outdir, saved, printed, writes>>

\* lines 122-124 and 55-59: the points of sample b when no mask is given
SamplePoints ==
    /\ ts.pc = "sample"
    /\ ts.b < ts.B
    /\ IF ts.mask # <<>>
       THEN ts' = [ts EXCEPT !.pc = "channel", !.idx = 0]
       ELSE IF ts.coords # <<>>
       THEN ts' = [ts EXCEPT !.pc = "channel", !.idx = 0,
                             !.grid_points = ColumnStack(ts.coords[1].x_coords,
                                                         ts.coords[1].y_coords)]
       ELSE \E xo \in RandInt(ts.self.x_spacing, DOMAIN ts.self.x_start_grid),
               yo \in RandInt(ts.self.y_spacing, DOMAIN ts.self.y_start_grid) :
                LET r == StructureObsCoords(ts.self, xo, yo)
                IN  ts' = [ts EXCEPT !.pc = "channel", !.idx = 0,
                                     !.grid_points = ColumnStack(r.x_coords, r.y_coords)]
    /\ UNCHANGED <<cfg, st, outdir, saved, printed, writes>>

\* lines 126-133: one known channel of sample b is filled; torch.argmin
\* raises when there is no point to choose from.  used_points keeps the
\* grid_points each assignment of line 131 was computed from.
FillChannel ==
    LET known_channel == KnownChannelSeq(ts.self)[ts.idx + 1]
        grid_points == IF ts.mask # <<>>
                       THEN get_grid_points_from_mask(ts.b, known_channel, ts.mask[1])
                       ELSE ts.grid_points
        field == FieldAt(ts.known_fields, ts.b, known_channel, grid_points)
        last == ts.idx + 1 = InChannels(ts.self)
    IN  /\ ts.pc = "channel"
        /\ IF grid_points = <<>>
           THEN ts' = [ts EXCEPT !.pc = "raised", !.grid_points = grid_points]
           ELSE ts' = [ts EXCEPT
                  !.pc = IF last THEN "sample" ELSE "channel",
                  !.grid_points = grid_points,
                  !.interpolated_fields[<<ts.b, ts.idx>>] =
                      interpolate(ts.self, grid_points, field),
                  !.used_points = (<<ts.b, ts.idx>> :> grid_points) @@ @,
                  !.idx = IF last THEN 0 ELSE ts.idx + 1,
                  !.b = IF last THEN ts.b + 1 ELSE ts.b]
        /\ UNCHANGED <<cfg, st, outdir, saved, printed, writes>>

\* line 135: return interpolated_fields
ReturnFields ==
    /\ ts.pc = "sample"
    /\ ts.b = ts.B
    /\ ts' = [ts EXCEPT !.pc = "returned"]
    /\ UNCHANGED <<cfg, st, outdir, saved, printed, writes>>

NextFill ==
    \/ Call
    \/ SamplePoints
    \/ FillChannel
    \/ ReturnFields

\* the object under __call__: every grid up to MaxDim x (MaxDim - 1) with
\* every point observed (spacing 1), and the largest of them with one point
\* drawn anywhere (one cell)
FillCfgs ==
    {VtObs(xd, yd, 1, 1, kc) :
        xd \in 1..MaxDim, yd \in 1..(MaxDim - 1), kc \in {<<>>, <<1>>}}
    \cup {VtObs(MaxDim, MaxDim - 1, MaxDim, MaxDim - 1, kc) : kc \in {<<>>, <<1>>}}

InitFill == InitObsWith(FillCfgs)

SpecFill == InitFill /\ [][NextFill]_vars

\* the positions <<x, y>> where the mask given to the call is nonzero for
\* sample b and channel c
MaskPositions(b, c) ==
    LET mask == ts.mask[1]
    IN  {<<yx[2], yx[1]>> : yx \in
            {yx \in (0..(ts.self.y_dim - 1)) \X (0..(ts.self.x_dim - 1)) :
                IF Len(mask.shape) = 3
                THEN b = 0 /\ mask.val[<<c, yx[1], yx[2]>>] # 0
                ELSE mask.val[<<b, c, yx[1], yx[2]>>] # 0}}

\* n is the first point of pts at minimal distance from the pixel (y, x)
FirstNearest(pts, n, yx) ==
    /\ \A m \in DOMAIN pts :
          Dist2(<<yx[2], yx[1]>>, pts[n]) <= Dist2(<<yx[2], yx[1]>>, pts[m])
    /\ \A m \in 1..(n - 1) :
          Dist2(<<yx[2], yx[1]>>, pts[n]) < Dist2(<<yx[2], yx[1]>>, pts[m])

\* C24: __call__ is a nearest-neighbour fill.  For every sample b and known
\* channel c filled so far, each output pixel (y, x) holds the known field's
\* value at the first observed point of minimal Euclidean distance to (x, y);
\* with a mask the observed points are exactly the nonzero positions of
\* mask[b, c], in row-major order; every observed position keeps its own
\* field value and every output value is one of the observed values.
C24_NearestNeighbourFill ==
    \A bi \in DOMAIN ts.used_points :
        LET b == bi[1]
            c == KnownChannelSeq(ts.self)[bi[2] + 1]
            pts == ts.used_points[bi]
            out == ts.interpolated_fields[bi]
            Value(q) == ts.known_fields[<<b, c, q[2], q[1]>>]
        IN  /\ pts # <<>>
            /\ ts.mask # <<>> =>
                  /\ Range(pts) = MaskPositions(b, c)
                  /\ \A m, n \in DOMAIN pts :
                        m < n => pts[m][2] * ts.self.x_dim + pts[m][1]
                                    < pts[n][2] * ts.self.x_dim + pts[n][1]
            /\ \A yx \in DOMAIN out :
                  /\ \E n \in DOMAIN pts :
                        FirstNearest(pts, n, yx) /\ out[yx] = Value(pts[n])
                  /\ out[yx] \in {Value(pts[n]) : n \in DOMAIN pts}
            /\ \A n \in DOMAIN pts : out[<<pts[n][2], pts[n][1]>>] = Value(pts[n])

\* a call with a mask (B, C, H, W) has returned: channel 1 of the second
\* sample was filled from two points with a pixel at the same distance from
\* both, which took the value at the first of them
C24_Witness ==
    /\ ts.pc = "returned"
    /\ ts.B = 2
    /\ ts.mask # <<>> /\ Len(ts.mask[1].shape) = 4
    /\ ts.self.known_channels = <<1>>
    /\ ts.self.x_dim = 3 /\ ts.self.y_dim = 2
    /\ LET pts == ts.used_points[<<1, 0>>]
       IN  /\ Len(pts) = 2
           /\ \E yx \in DOMAIN ts.interpolated_fields[<<1, 0>>] :
                 /\ Dist2(<<yx[2], yx[1]>>, pts[1]) = Dist2(<<yx[2], yx[1]>>, pts[2])
                 /\ ts.interpolated_fields[<<1, 0>>][yx]
                       = ts.known_fields[<<1, 1, pts[1][2], pts[1][1]>>]

====
